---- MODULE Spec2Model ----
(***************************************************************************)
(* Model of backend/lambda/codex/chat.py: one invocation of lambda_handler *)
(* together with get_openai_api_key and get_database_connection.           *)
(*                                                                         *)
(* Python str values are TLA+ strings (\o is Python's +), Python's None is *)
(* the value None below, a dict is a function from its keys, and the text  *)
(* of a JSON document is a sequence of lexical tokens.                     *)
(***************************************************************************)
EXTENDS Integers, Sequences, FiniteSets, TLC

VARIABLES
    environ,          \* os.environ of the process
    event,            \* the event handed to lambda_handler
    pc,               \* position of the invocation inside lambda_handler
    body,             \* local body (line 85-88)
    message, code, language, task, context, cognito_user_id,   \* lines 90-95
    api_key,          \* line 105
    system_prompt, user_prompt,                                \* lines 109-134
    completion,       \* line 137: what the completion API returned
    conn,             \* line 156: None, "open" or "closed"
    table,            \* committed rows of codex_conversations
    pending,          \* rows inserted on the connection and not yet committed
    response,         \* the envelope lambda_handler returned
    trace,            \* the external calls and steps made so far, in order
    world,            \* what each external collaborator answers, once asked
    prev              \* the finished invocation a redelivery is compared with

vars == << environ, event, pc, body, message, code, language, task, context,
           cognito_user_id, api_key, system_prompt, user_prompt, completion,
           conn, table, pending, response, trace, world, prev >>

(***************************************************************************)
(* Python values                                                           *)
(***************************************************************************)
\* Python's None where a str is expected; no str of the model equals it.
None == "<None>"

\* bool(v) of a str or None
Truthy(v) == v # None /\ v # ""

\* a or b
Or(a, b) == IF Truthy(a) THEN a ELSE b

\* d.get(k, default) of a dict d
Get(d, k, default) == IF k \in DOMAIN d THEN d[k] ELSE default

\* the empty dict {}
EmptyDict == [k \in {} |-> ""]

\* values of a name whose kind decides how it is read
PyDict(d) == [kind |-> "dict", val |-> d]
PyNone == [kind |-> "none", val |-> EmptyDict]
PyList == [kind |-> "list", val |-> EmptyDict]
PyStr(toks) == [kind |-> "str", val |-> toks]

\* seq.count(x)
Count(seq, x) == Cardinality({ i \in DOMAIN seq : seq[i] = x })

\* an exception and its str()
Exc(type, msg) == [type |-> type, msg |-> msg]

(***************************************************************************)
(* JSON text: a sequence of tokens                                         *)
(***************************************************************************)
P(c) == [t |-> "punct", v |-> c]
S(s) == [t |-> "string", v |-> s]
\* text that is no JSON token
T(s) == [t |-> "text", v |-> s]
LBrace == P("{")
RBrace == P("}")
Colon == P(":")
Comma == P(",")

\* the order in which the members of an object are written
KeyOrder ==
    << "message", "code", "language", "task", "context", "cognitoUserId",
       "OPENAI_API_KEY", "openai_api_key", "password", "DB_PASSWORD", "username" >>

RECURSIVE Members(_, _)
Members(d, i) ==
    IF i > Len(KeyOrder) THEN << >>
    ELSE IF KeyOrder[i] \in DOMAIN d
         THEN LET rest == Members(d, i + 1)
              IN  << S(KeyOrder[i]), Colon, S(d[KeyOrder[i]]) >>
                    \o (IF rest = << >> THEN << >> ELSE << Comma >> \o rest)
         ELSE Members(d, i + 1)

\* json.dumps(d) of a dict of str
json_dumps(d) == << LBrace >> \o Members(d, 1) \o << RBrace >>

JSONDecodeError == Exc("JSONDecodeError", "Expecting value: line 1 column 1 (char 0)")

\* members of an object from position i on, acc the members read so far;
\* a later duplicate key replaces an earlier one
RECURSIVE ParseMembers(_, _, _)
ParseMembers(toks, i, acc) ==
    IF i + 3 > Len(toks) THEN [ok |-> FALSE, value |-> PyNone]
    ELSE IF /\ toks[i].t = "string"
            /\ toks[i + 1] = Colon
            /\ toks[i + 2].t = "string"
         THEN LET d == [k \in DOMAIN acc \cup {toks[i].v} |->
                           IF k = toks[i].v THEN toks[i + 2].v ELSE acc[k]]
              IN  IF toks[i + 3] = RBrace
                  THEN [ok |-> i + 3 = Len(toks), value |-> PyDict(d)]
                  ELSE IF toks[i + 3] = Comma
                       THEN ParseMembers(toks, i + 4, d)
                       ELSE [ok |-> FALSE, value |-> PyNone]
         ELSE [ok |-> FALSE, value |-> PyNone]

\* json.loads(text): ok is FALSE where it raises JSONDecodeError
json_loads(toks) ==
    IF toks = << P("null") >> THEN [ok |-> TRUE, value |-> PyNone]
    ELSE IF toks = << P("["), P("]") >> THEN [ok |-> TRUE, value |-> PyList]
    ELSE IF Len(toks) = 1 /\ toks[1].t = "string"
         THEN [ok |-> TRUE, value |-> [kind |-> "str", val |-> EmptyDict]]
    ELSE IF toks = << LBrace, RBrace >> THEN [ok |-> TRUE, value |-> PyDict(EmptyDict)]
    ELSE IF Len(toks) >= 1 /\ toks[1] = LBrace
         THEN ParseMembers(toks, 2, EmptyDict)
         ELSE [ok |-> FALSE, value |-> PyNone]

(***************************************************************************)
(* Inputs: requests, events, process environments                          *)
(***************************************************************************)
\* a dict of the members that are present (None marks an absent member)
MkDict(c) == [k \in {x \in DOMAIN c : c[x] # None} |-> c[k]]

Messages == {None, "", "sort a list"}
Codes == {None, "", "x = 1"}
Languages == {None, "python"}
Tasks == {None, "", "chat", "generate", "explain", "refactor", "debug",
          "translate", "document", "summarize"}
UserIds == {None, "", "u1"}

\* the request bodies a client sends, as objects
Requests ==
    { MkDict([message |-> m, code |-> c, language |-> l, task |-> t,
              cognitoUserId |-> u]) :
        m \in Messages, c \in Codes, l \in Languages, t \in Tasks, u \in UserIds }

\* event has no 'body' key
Absent == [kind |-> "absent", val |-> EmptyDict]

\* body texts that are not a JSON object
BadTexts == { << >>, << LBrace >>, << P("null") >>, << P("["), P("]") >> }

\* the text a client sends for each request object
TextOf == [r \in Requests |-> json_dumps(r)]

\* the request object each such text stands for
ObjectOf == [t \in { TextOf[r] : r \in Requests } |->
                CHOOSE r \in Requests : TextOf[r] = t]

StrBodies == { PyStr(TextOf[r]) : r \in Requests }
DictBodies == { PyDict(r) : r \in Requests }
OddBodies == { Absent, PyNone, PyList } \cup { PyStr(t) : t \in BadTexts }
Bodies == StrBodies \cup DictBodies \cup OddBodies

\* bodies tried with the methods whose handling does not depend on them
FewBodies ==
    OddBodies \cup { PyDict(EmptyDict), PyStr(json_dumps(EmptyDict)),
                     PyDict([cognitoUserId |-> "u1", message |-> "sort a list"]),
                     PyStr(json_dumps([cognitoUserId |-> "u1"])) }

Events ==
    { [httpMethod |-> "POST", body |-> b] : b \in Bodies }
      \cup { [httpMethod |-> m, body |-> b] : m \in {"OPTIONS", None}, b \in FewBodies }

EnvVars == { "OPENAI_API_KEY", "OPENAI_SECRET_NAME", "DB_HOST", "DB_NAME",
             "DB_USER", "DB_PASSWORD_SECRET", "DB_PASSWORD" }

\* database configurations: complete with a plain password, complete with a
\* password secret, host missing
DbEnvs ==
    { [DB_HOST |-> "db.internal", DB_NAME |-> "infinify", DB_USER |-> "app",
       DB_PASSWORD_SECRET |-> None, DB_PASSWORD |-> "pw"],
      [DB_HOST |-> "db.internal", DB_NAME |-> "infinify", DB_USER |-> "app",
       DB_PASSWORD_SECRET |-> "db/password", DB_PASSWORD |-> None],
      [DB_HOST |-> None, DB_NAME |-> "infinify", DB_USER |-> "app",
       DB_PASSWORD_SECRET |-> None, DB_PASSWORD |-> "pw"] }

Environs ==
    { [v \in EnvVars |->
          IF v = "OPENAI_API_KEY" THEN k
          ELSE IF v = "OPENAI_SECRET_NAME" THEN n
          ELSE db[v]] :
        k \in {None, "", "sk-env"}, n \in {None, "codex/openai"}, db \in DbEnvs }

(***************************************************************************)
(* External collaborators: what each call answers                          *)
(***************************************************************************)
Calls == { "openai_secret", "completion", "db_secret", "connect", "cursor",
           "execute", "commit", "cursor_close", "conn_close" }

Unasked == [kind |-> "unasked", val |-> << >>]
Ok(v) == [kind |-> "ok", val |-> v]
ClientError == [kind |-> "ClientError", val |-> << >>]
Raises(msg) == [kind |-> "raise", val |-> << S(msg) >>]

\* SecretString of the secrets the backend may hold
\* the objects a secret of the backend may hold
OpenAISecrets ==
    { [OPENAI_API_KEY |-> "sk-upper"],
      [openai_api_key |-> "sk-lower"],
      [OPENAI_API_KEY |-> "", openai_api_key |-> "sk-lower"],
      [username |-> "app"] }

\* SecretString: an object's text, or a bare key that is no JSON document
OpenAISecretTexts == { json_dumps(d) : d \in OpenAISecrets } \cup { << T("sk-plain") >> }

DbSecretTexts ==
    { json_dumps([password |-> "pw"]),
      json_dumps([DB_PASSWORD |-> "pw"]),
      json_dumps([username |-> "app"]),
      << T("pw") >> }

\* the largest prompt token count a completion reports
MaxPromptTokens == 11

Usages ==
    { [prompt_tokens |-> p, completion_tokens |-> 5, total_tokens |-> p + 5] :
        p \in 10..MaxPromptTokens }

Completions ==
    { [text |-> t, usage |-> u] : t \in {"It does nothing."}, u \in Usages }

Answers(call) ==
    CASE call = "openai_secret" ->
           { ClientError, Raises("Could not connect to the endpoint URL") }
             \cup { Ok(t) : t \in OpenAISecretTexts }
      [] call = "db_secret" ->
           { ClientError, Raises("Could not connect to the endpoint URL") }
             \cup { Ok(t) : t \in DbSecretTexts }
      [] call = "completion" ->
           { Raises("Connection error.") } \cup { Ok(c) : c \in Completions }
      [] OTHER -> { Ok(<< >>), Raises(call \o " failed") }

\* the answers the call may get now: the one already given, else any
Ask(call) == IF world[call].kind = "unasked" THEN Answers(call) ELSE { world[call] }

str(answer) == answer.val[1].v

(***************************************************************************)
(* get_openai_api_key and get_database_connection                          *)
(***************************************************************************)
Return(v) == [ok |-> TRUE, value |-> v, exc |-> Exc("", "")]
Raise(e) == [ok |-> FALSE, value |-> None, exc |-> e]

AttributeError(v) ==
    Exc("AttributeError",
        (IF v.kind = "none" THEN "'NoneType'" ELSE "'" \o v.kind \o "'")
          \o " object has no attribute 'get'")

\* line 15-20: whether get_openai_api_key calls the secret backend
openai_secret_needed(env) ==
    ~ Truthy(env["OPENAI_API_KEY"]) /\ Truthy(env["OPENAI_SECRET_NAME"])

\* get_openai_api_key(), answer being what get_secret_value answers if called
get_openai_api_key(env, answer) ==
    IF Truthy(env["OPENAI_API_KEY"])
    THEN Return(env["OPENAI_API_KEY"])
    ELSE IF Truthy(env["OPENAI_SECRET_NAME"])
    THEN CASE answer.kind = "ClientError" ->
                Raise(Exc("Exception", "Failed to retrieve OpenAI API key"))
           [] answer.kind = "raise" ->
                Raise(Exc("BotoCoreError", str(answer)))
           [] OTHER ->
                LET secret == json_loads(answer.val)
                IN  IF ~ secret.ok THEN Raise(JSONDecodeError)
                    ELSE IF secret.value.kind # "dict"
                    THEN Raise(AttributeError(secret.value))
                    ELSE Return(Or(Get(secret.value.val, "OPENAI_API_KEY", None),
                                   Get(secret.value.val, "openai_api_key", None)))
    ELSE Raise(Exc("Exception",
                   "OpenAI API key not configured. Set OPENAI_API_KEY environment variable or configure AWS Secrets Manager."))

\* line 106, OpenAI(api_key=api_key): the key the client ends up with; the
\* library's constructor falls back on OPENAI_API_KEY of the environment and
\* raises OpenAIError when that is unset too
OpenAI(key, env) ==
    LET k == IF key = None THEN env["OPENAI_API_KEY"] ELSE key
    IN  IF k = None
        THEN Raise(Exc("OpenAIError",
                       "The api_key client option must be set either by passing api_key to the client or by setting the OPENAI_API_KEY environment variable"))
        ELSE Return(k)

\* line 41-50: whether get_database_connection calls the secret backend
db_secret_needed(env) == Truthy(env["DB_PASSWORD_SECRET"])

\* line 40-50: db_password; raised is TRUE where an error other than
\* ClientError leaves the block
db_password(env, answer) ==
    IF Truthy(env["DB_PASSWORD_SECRET"])
    THEN CASE answer.kind = "ClientError" -> Return(None)
           [] answer.kind = "raise" -> Raise(Exc("BotoCoreError", str(answer)))
           [] OTHER ->
                LET secret == json_loads(answer.val)
                IN  IF ~ secret.ok THEN Raise(JSONDecodeError)
                    ELSE IF secret.value.kind # "dict"
                    THEN Raise(AttributeError(secret.value))
                    ELSE Return(Or(Get(secret.value.val, "password", None),
                                   Get(secret.value.val, "DB_PASSWORD", None)))
    ELSE Return(env["DB_PASSWORD"])

\* line 52-55: whether psycopg2.connect is called
connect_needed(env, secretAnswer) ==
    LET pw == db_password(env, secretAnswer)
    IN  /\ pw.ok
        /\ Truthy(env["DB_HOST"]) /\ Truthy(env["DB_NAME"])
        /\ Truthy(env["DB_USER"]) /\ Truthy(pw.value)

\* get_database_connection(): "open" for a connection, None otherwise
get_database_connection(env, secretAnswer, connectAnswer) ==
    IF connect_needed(env, secretAnswer) /\ connectAnswer.kind = "ok"
    THEN "open"
    ELSE None

(***************************************************************************)
(* lambda_handler                                                          *)
(***************************************************************************)
\* line 68-73
headers ==
    ("Access-Control-Allow-Origin" :> "*")
      @@ ("Access-Control-Allow-Headers" :> "Content-Type,Authorization")
      @@ ("Access-Control-Allow-Methods" :> "POST,OPTIONS")
      @@ ("Content-Type" :> "application/json")

Envelope(status, hdrs, b) == [statusCode |-> status, headers |-> hdrs, body |-> b]

NoResponse == Envelope(0, EmptyDict, EmptyDict)

\* line 77-81
PreflightResponse == Envelope(200, headers, EmptyDict)

\* line 98-102
UnauthorizedResponse == Envelope(401, headers, [error |-> "Unauthorized"])

\* line 172-180
SuccessResponse(response_text, usage) ==
    Envelope(200, headers,
             [success |-> TRUE, response |-> response_text, usage |-> usage])

\* the 500 envelope built without the shared headers
ErrorResponseNoCors(error) ==
    Envelope(500, ("Content-Type" :> "application/json"),
             [error |-> Or(error.msg, "Failed to process Codex request")])

\* line 182-190
ErrorResponse(error) ==
    Envelope(500, headers, [error |-> Or(error.msg, "Failed to process Codex request")])

\* a body that is not a str is taken to be empty
parse_body_str_only(ev) ==
    IF ev.body.kind = "str"
    THEN LET r == json_loads(ev.body.val)
         IN  IF r.ok THEN [ok |-> TRUE, value |-> r.value, exc |-> Exc("", "")]
             ELSE [ok |-> FALSE, value |-> PyNone, exc |-> JSONDecodeError]
    ELSE [ok |-> TRUE, value |-> PyDict(EmptyDict), exc |-> Exc("", "")]

\* line 85-88: body, or the exception the block raises
parse_body(ev) ==
    IF ev.body.kind = "str"
    THEN LET r == json_loads(ev.body.val)
         IN  IF r.ok THEN [ok |-> TRUE, value |-> r.value, exc |-> Exc("", "")]
             ELSE [ok |-> FALSE, value |-> PyNone, exc |-> JSONDecodeError]
    ELSE [ok |-> TRUE,
          value |-> IF ev.body.kind = "absent" THEN PyDict(EmptyDict) ELSE ev.body,
          exc |-> Exc("", "")]

\* the code label is appended without testing code
chat_prompt_label_always(m, c) ==
    [system_prompt |-> "You are Codex, an AI coding assistant. Help users with code generation, explanation, refactoring, bug fixing, and documentation.",
     user_prompt |-> Or(m, "") \o "\n\nCode context:\n" \o c]

\* line 109-110 and 130-134: the general chat branch
chat_prompt(m, c) ==
    [system_prompt |-> "You are Codex, an AI coding assistant. Help users with code generation, explanation, refactoring, bug fixing, and documentation.",
     user_prompt |-> Or(m, "")
                       \o (IF Truthy(c) THEN "\n\nCode context:\n" \o c ELSE "")]

\* line 108-134
build_prompt(t, m, c, l) ==
    CASE t = "generate" ->
           [system_prompt |-> "You are Codex, an expert code generator. Generate clean, well-documented code based on user requirements.",
            user_prompt |-> "Generate " \o Or(l, "code") \o " for: " \o m \o "\n"
                              \o (IF Truthy(c) THEN c ELSE "")]
      [] t = "explain" ->
           [system_prompt |-> "You are Codex, an expert code explainer. Explain code clearly and comprehensively.",
            user_prompt |-> "Explain this code:\n\n" \o c \o "\n\n"
                              \o (IF Truthy(m) THEN m ELSE "Explain what this code does, how it works, and any important details.")]
      [] t = "refactor" ->
           [system_prompt |-> "You are Codex, an expert code refactoring assistant. Improve code quality, readability, and maintainability.",
            user_prompt |-> "Refactor this " \o Or(l, "code") \o ":\n\n" \o c \o "\n\n"
                              \o (IF Truthy(m) THEN m ELSE "Refactor this code to follow best practices and improve quality.")]
      [] t = "debug" ->
           [system_prompt |-> "You are Codex, an expert debugging assistant. Identify bugs and suggest fixes.",
            user_prompt |-> "Debug this " \o Or(l, "code") \o ":\n\n" \o c \o "\n\n"
                              \o (IF Truthy(m) THEN m ELSE "Find and fix any bugs in this code.")]
      [] t = "translate" ->
           [system_prompt |-> "You are Codex, an expert code translator. Convert code between programming languages accurately.",
            user_prompt |-> "Translate this code to " \o Or(m, "the requested language")
                              \o ":\n\n" \o c]
      [] t = "document" ->
           [system_prompt |-> "You are Codex, an expert documentation generator. Create comprehensive code documentation.",
            user_prompt |-> "Generate documentation for this " \o Or(l, "code") \o ":\n\n"
                              \o c \o "\n\n"
                              \o (IF Truthy(m) THEN m ELSE "Generate comprehensive documentation including comments and docstrings.")]
      [] OTHER -> chat_prompt(m, c)

NoCompletion ==
    [text |-> None,
     usage |-> [prompt_tokens |-> 0, completion_tokens |-> 0, total_tokens |-> 0]]

NoPrev == [set |-> FALSE, event |-> [httpMethod |-> None, body |-> Absent],
           response |-> NoResponse, trace |-> << >>, table |-> << >>]

\* the locals of lambda_handler before their assignment
FreshLocals ==
    /\ body = PyNone
    /\ message = None /\ code = None /\ language = None /\ task = None
    /\ context = None /\ cognito_user_id = None
    /\ api_key = None
    /\ system_prompt = None /\ user_prompt = None
    /\ completion = NoCompletion
    /\ conn = None
    /\ pending = << >>
    /\ response = NoResponse
    /\ trace = << >>

Init ==
    /\ environ \in Environs
    /\ event \in Events
    /\ pc = "start"
    /\ FreshLocals
    /\ table = << >>
    /\ world = [c \in Calls |-> Unasked]
    /\ prev = NoPrev

requestLocals == << body, message, code, language, task, context, cognito_user_id >>
promptLocals == << system_prompt, user_prompt >>
dbState == << conn, table, pending >>
fixed == << environ, event, prev >>

\* line 182-190: the handler's except clause returns the 500 envelope
Fail(error) ==
    /\ response' = ErrorResponse(error)
    /\ pc' = "done"

\* line 168-170: the except clause of the save block; the handler goes on
Discard(what) ==
    /\ trace' = trace \o << what, "db_error_logged" >>
    /\ pc' = "respond"

\* the preflight test never matches
HandlePreflightMissed ==
    /\ pc = "start"
    /\ pc' = "parse"
    /\ UNCHANGED << requestLocals, api_key, promptLocals, completion, dbState,
                    response, trace, world, fixed >>

\* line 68-81
HandlePreflight ==
    /\ pc = "start"
    /\ IF event.httpMethod = "OPTIONS"
       THEN /\ response' = PreflightResponse
            /\ pc' = "done"
       ELSE /\ pc' = "parse"
            /\ UNCHANGED response
    /\ UNCHANGED trace
    /\ UNCHANGED << requestLocals, api_key, promptLocals, completion, dbState,
                    world, fixed >>

\* line 83-95
ParseBody ==
    /\ pc = "parse"
    /\ trace' = Append(trace, "parse")
    /\ LET b == parse_body(event)
       IN  IF ~ b.ok
           THEN /\ Fail(b.exc)
                /\ UNCHANGED requestLocals
           ELSE /\ body' = b.value
                /\ IF b.value.kind # "dict"
                   THEN /\ Fail(AttributeError(b.value))
                        /\ UNCHANGED << message, code, language, task, context,
                                        cognito_user_id >>
                   ELSE /\ message' = Get(b.value.val, "message", "")
                        /\ code' = Get(b.value.val, "code", "")
                        /\ language' = Get(b.value.val, "language", "")
                        /\ task' = Get(b.value.val, "task", "chat")
                        /\ context' = Get(b.value.val, "context", "")
                        /\ cognito_user_id' = Get(b.value.val, "cognitoUserId", "")
                        /\ pc' = "authenticate"
                        /\ UNCHANGED response
    /\ UNCHANGED << api_key, promptLocals, completion, dbState, world, fixed >>

\* line 97-102
Authenticate ==
    /\ pc = "authenticate"
    /\ IF ~ Truthy(cognito_user_id)
       THEN /\ response' = UnauthorizedResponse
            /\ pc' = "done"
       ELSE /\ pc' = "get_key"
            /\ UNCHANGED response
    /\ trace' = Append(trace, "authenticate")
    /\ UNCHANGED << requestLocals, api_key, promptLocals, completion, dbState,
                    world, fixed >>

\* line 105
GetOpenAIKey ==
    /\ pc = "get_key"
    /\ \E answer \in (IF openai_secret_needed(environ)
                      THEN Ask("openai_secret") ELSE { world["openai_secret"] }) :
         LET r == get_openai_api_key(environ, answer)
         IN  /\ world' = [world EXCEPT !["openai_secret"] = answer]
             /\ trace' = trace \o (IF openai_secret_needed(environ)
                                   THEN << "get_openai_api_key", "get_secret_value" >>
                                   ELSE << "get_openai_api_key" >>)
             /\ IF r.ok
                THEN /\ api_key' = r.value
                     /\ pc' = "create_client"
                     /\ UNCHANGED response
                ELSE /\ Fail(r.exc)
                     /\ UNCHANGED api_key
    /\ UNCHANGED << requestLocals, promptLocals, completion, dbState, fixed >>

\* line 106
CreateClient ==
    /\ pc = "create_client"
    /\ trace' = Append(trace, "create_client")
    /\ LET r == OpenAI(api_key, environ)
       IN  IF r.ok
           THEN /\ pc' = "build_prompt"
                /\ UNCHANGED response
           ELSE Fail(r.exc)
    /\ UNCHANGED << requestLocals, api_key, promptLocals, completion, dbState,
                    world, fixed >>

\* line 108-134
BuildPrompt ==
    /\ pc = "build_prompt"
    /\ LET p == build_prompt(task, message, code, language)
       IN  /\ system_prompt' = p.system_prompt
           /\ user_prompt' = p.user_prompt
    /\ trace' = Append(trace, "build_prompt")
    /\ pc' = "complete"
    /\ UNCHANGED << requestLocals, api_key, completion, dbState, response, world,
                    fixed >>

\* a failed completion request is issued a second time
CallCompletionRetry ==
    /\ pc = "complete"
    /\ \E answer \in Ask("completion") :
         /\ world' = [world EXCEPT !["completion"] = answer]
         /\ trace' = Append(trace, "completion_request")
         /\ IF answer.kind = "ok"
            THEN /\ completion' = answer.val
                 /\ pc' = "connect"
                 /\ UNCHANGED response
            ELSE /\ IF Count(trace, "completion_request") = 0
                    THEN UNCHANGED << pc, response >>
                    ELSE Fail(Exc("APIConnectionError", str(answer)))
                 /\ UNCHANGED completion
    /\ UNCHANGED << requestLocals, api_key, promptLocals, dbState, fixed >>

\* the exchange is saved whether or not the completion request succeeded
CallCompletionSaveAnyway ==
    /\ pc = "complete"
    /\ \E answer \in Ask("completion") :
         /\ world' = [world EXCEPT !["completion"] = answer]
         /\ trace' = Append(trace, "completion_request")
         /\ completion' = IF answer.kind = "ok" THEN answer.val ELSE NoCompletion
         /\ response' = IF answer.kind = "ok" THEN response
                        ELSE ErrorResponse(Exc("APIConnectionError", str(answer)))
         /\ pc' = "connect"
    /\ UNCHANGED << requestLocals, api_key, promptLocals, dbState, fixed >>

\* line 136-152
CallCompletion ==
    /\ pc = "complete"
    /\ \E answer \in Ask("completion") :
         /\ world' = [world EXCEPT !["completion"] = answer]
         /\ trace' = Append(trace, "completion_request")
         /\ IF answer.kind = "ok"
            THEN /\ completion' = answer.val
                 /\ pc' = "connect"
                 /\ UNCHANGED response
            ELSE /\ Fail(Exc("APIConnectionError", str(answer)))
                 /\ UNCHANGED completion
    /\ UNCHANGED << requestLocals, api_key, promptLocals, dbState, fixed >>

\* line 159-164: the row the insert writes
Row ==
    [cognito_user_id |-> cognito_user_id, task |-> Or(task, "chat"),
     language |-> Or(language, None), user_input |-> user_prompt,
     ai_response |-> completion.text, created_at |-> "NOW()"]

\* line 156
GetDatabaseConnection ==
    /\ pc = "connect"
    /\ \E sa \in (IF db_secret_needed(environ)
                  THEN Ask("db_secret") ELSE { world["db_secret"] }) :
         \E ca \in (IF connect_needed(environ, sa)
                    THEN Ask("connect") ELSE { world["connect"] }) :
           /\ world' = [world EXCEPT !["db_secret"] = sa, !["connect"] = ca]
           /\ conn' = get_database_connection(environ, sa, ca)
           /\ trace' = trace \o << "get_database_connection" >>
                         \o (IF db_secret_needed(environ)
                             THEN << "get_secret_value" >> ELSE << >>)
                         \o (IF connect_needed(environ, sa)
                             THEN << "connect" >> ELSE << >>)
    /\ pc' = "cursor"
    /\ UNCHANGED << requestLocals, api_key, promptLocals, completion, table,
                    pending, response, fixed >>

\* line 157-158
CreateCursor ==
    /\ pc = "cursor"
    /\ IF conn = None
       THEN /\ pc' = "respond"
            /\ UNCHANGED << trace, world >>
       ELSE \E answer \in Ask("cursor") :
              /\ world' = [world EXCEPT !["cursor"] = answer]
              /\ IF answer.kind = "ok"
                 THEN /\ trace' = Append(trace, "cursor")
                      /\ pc' = "execute"
                 ELSE Discard("cursor")
    /\ UNCHANGED << requestLocals, api_key, promptLocals, completion, dbState,
                    response, fixed >>

\* line 159-164
ExecuteInsert ==
    /\ pc = "execute"
    /\ \E answer \in Ask("execute") :
         /\ world' = [world EXCEPT !["execute"] = answer]
         /\ IF answer.kind = "ok"
            THEN /\ pending' = Append(pending, Row)
                 /\ trace' = Append(trace, "insert")
                 /\ pc' = "commit"
            ELSE /\ Discard("insert")
                 /\ UNCHANGED pending
    /\ UNCHANGED << requestLocals, api_key, promptLocals, completion, conn, table,
                    response, fixed >>

\* line 165
Commit ==
    /\ pc = "commit"
    /\ \E answer \in Ask("commit") :
         /\ world' = [world EXCEPT !["commit"] = answer]
         /\ IF answer.kind = "ok"
            THEN /\ table' = table \o pending
                 /\ pending' = << >>
                 /\ trace' = Append(trace, "commit")
                 /\ pc' = "cursor_close"
            ELSE /\ Discard("commit")
                 /\ UNCHANGED << table, pending >>
    /\ UNCHANGED << requestLocals, api_key, promptLocals, completion, conn,
                    response, fixed >>

\* line 166
CloseCursor ==
    /\ pc = "cursor_close"
    /\ \E answer \in Ask("cursor_close") :
         /\ world' = [world EXCEPT !["cursor_close"] = answer]
         /\ IF answer.kind = "ok"
            THEN /\ trace' = Append(trace, "cursor_close")
                 /\ pc' = "conn_close"
            ELSE Discard("cursor_close")
    /\ UNCHANGED << requestLocals, api_key, promptLocals, completion, dbState,
                    response, fixed >>

\* line 167
CloseConnection ==
    /\ pc = "conn_close"
    /\ \E answer \in Ask("conn_close") :
         /\ world' = [world EXCEPT !["conn_close"] = answer]
         /\ IF answer.kind = "ok"
            THEN /\ conn' = "closed"
                 /\ trace' = Append(trace, "conn_close")
                 /\ pc' = "respond"
            ELSE /\ Discard("conn_close")
                 /\ UNCHANGED conn
    /\ UNCHANGED << requestLocals, api_key, promptLocals, completion, table,
                    pending, response, fixed >>

\* a failed save turns the response into a failure
RespondUnlessSaveFailed ==
    /\ pc = "respond"
    /\ response' = IF \E i \in DOMAIN trace : trace[i] = "db_error_logged"
                   THEN ErrorResponse(Exc("Exception", "Failed to save conversation"))
                   ELSE SuccessResponse(completion.text, completion.usage)
    /\ pc' = "done"
    /\ UNCHANGED << requestLocals, api_key, promptLocals, completion, dbState,
                    trace, world, fixed >>

\* line 172-180
Respond ==
    /\ pc = "respond"
    /\ response' = SuccessResponse(completion.text, completion.usage)
    /\ pc' = "done"
    /\ UNCHANGED << requestLocals, api_key, promptLocals, completion, dbState,
                    trace, world, fixed >>

Next ==
    \/ HandlePreflight
    \/ ParseBody
    \/ Authenticate
    \/ GetOpenAIKey
    \/ CreateClient
    \/ BuildPrompt
    \/ CallCompletion
    \/ GetDatabaseConnection
    \/ CreateCursor
    \/ ExecuteInsert
    \/ Commit
    \/ CloseCursor
    \/ CloseConnection
    \/ Respond

Spec == Init /\ [][Next]_vars

(***************************************************************************)
(* The same request delivered a second time in the other body form         *)
(***************************************************************************)
\* the body with the same members in the other form
OtherForm(b) ==
    IF b.kind = "dict"
    THEN PyStr(json_dumps(b.val))
    ELSE PyDict(ObjectOf[b.val])

\* the environments of the redelivery runs: every credential from the secret
\* backend, and every credential from the environment
PairEnvirons ==
    { e \in Environs :
        \/ /\ e["OPENAI_API_KEY"] = None /\ e["OPENAI_SECRET_NAME"] # None
           /\ e["DB_PASSWORD_SECRET"] # None
        \/ /\ e["OPENAI_API_KEY"] = "sk-env" /\ e["OPENAI_SECRET_NAME"] = None
           /\ e["DB_HOST"] # None /\ e["DB_PASSWORD_SECRET"] = None }

InitPair ==
    /\ Init
    /\ environ \in PairEnvirons
    /\ event.httpMethod = "POST"
    /\ event.body \in StrBodies \cup DictBodies

\* the finished invocation is remembered and the handler is invoked again, in
\* the same process and with collaborators that answer as before
Redeliver ==
    /\ pc = "done"
    /\ ~ prev.set
    /\ event.body.kind \in {"str", "dict"}
    /\ prev' = [set |-> TRUE, event |-> event, response |-> response,
                trace |-> trace, table |-> table]
    /\ event' = [event EXCEPT !.body = OtherForm(event.body)]
    /\ pc' = "start"
    /\ body' = PyNone
    /\ message' = None /\ code' = None /\ language' = None /\ task' = None
    /\ context' = None /\ cognito_user_id' = None
    /\ api_key' = None
    /\ system_prompt' = None /\ user_prompt' = None
    /\ completion' = NoCompletion
    /\ conn' = None
    /\ pending' = << >>
    /\ response' = NoResponse
    /\ trace' = << >>
    /\ UNCHANGED << environ, table, world >>

NextPair == Next \/ Redeliver

SpecPair == InitPair /\ [][NextPair]_vars

(***************************************************************************)
(* Properties                                                              *)
(***************************************************************************)
Done == pc = "done"

Occurs(x) == \E i \in DOMAIN trace : trace[i] = x

\* the request object the client sent, whichever form the body has; no
\* member at all where the body is missing or is no JSON object
RequestOf(ev) ==
    IF ev.body.kind = "dict" THEN ev.body.val
    ELSE IF ev.body.kind = "str" /\ ev.body.val \in DOMAIN ObjectOf
         THEN ObjectOf[ev.body.val]
         ELSE EmptyDict

FixedHeaders ==
    [h \in { "Access-Control-Allow-Origin", "Access-Control-Allow-Headers",
             "Access-Control-Allow-Methods", "Content-Type" } |->
        CASE h = "Access-Control-Allow-Origin" -> "*"
          [] h = "Access-Control-Allow-Headers" -> "Content-Type,Authorization"
          [] h = "Access-Control-Allow-Methods" -> "POST,OPTIONS"
          [] OTHER -> "application/json"]

CompletionSucceeded == Occurs("completion_request") /\ world["completion"].kind = "ok"
CompletionFailed == Occurs("completion_request") /\ world["completion"].kind = "raise"

SaysSuccess == "success" \in DOMAIN response.body /\ response.body["success"] = TRUE

PersistenceSteps == { "get_database_connection", "connect", "cursor", "insert", "commit" }

\* C1: when the completion call succeeded the handler returns 200 with
\* success = true, the completion's text and its three usage counts, whatever
\* happened while saving; and no returned body says success unless the
\* completion call succeeded.
C1_SuccessIffCompletion ==
    Done =>
      /\ CompletionSucceeded =>
           /\ response.statusCode = 200
           /\ response.body = [success |-> TRUE,
                               response |-> world["completion"].val.text,
                               usage |-> world["completion"].val.usage]
      /\ SaysSuccess => CompletionSucceeded

\* C1 witness: the insert raised after a successful completion and the
\* handler has returned the completion.
C1_Witness ==
    /\ Done /\ CompletionSucceeded
    /\ Occurs("insert") /\ world["execute"].kind = "raise"
    /\ response.statusCode = 200
    /\ response.body["response"] = "It does nothing."

\* C2: when the completion call failed the handler returns 500 and makes no
\* persistence attempt; every persistence step in the trace comes after a
\* completion request that succeeded.
C2_NoSaveAfterFailedCompletion ==
    /\ CompletionFailed =>
         /\ \A i \in DOMAIN trace : trace[i] \notin PersistenceSteps
         /\ table = << >> /\ pending = << >> /\ conn = None
         /\ Done => response.statusCode = 500
    /\ \A i \in DOMAIN trace :
         trace[i] \in PersistenceSteps =>
           /\ world["completion"].kind = "ok"
           /\ \E j \in 1..(i - 1) : trace[j] = "completion_request"

\* C2 witness: the completion call failed and the handler returned 500.
C2_Witness ==
    /\ Done /\ CompletionFailed
    /\ response.statusCode = 500
    /\ response.body = [error |-> "Connection error."]

\* C3: a request that is not a preflight and carries no user identifier, or an
\* empty one, gets exactly 401 {"error": "Unauthorized"}, whatever its other
\* fields and whatever the form of its body, a missing or malformed body
\* included.
C3_MissingUserIs401 ==
    ( /\ Done
      /\ event.httpMethod # "OPTIONS"
      /\ ~ Truthy(Get(RequestOf(event), "cognitoUserId", "")) )
      => response = [statusCode |-> 401, headers |-> FixedHeaders,
                     body |-> [error |-> "Unauthorized"]]

\* C4: an OPTIONS event gets 200 with an empty object and the four fixed
\* headers, and nothing else has happened by then: no parsing, no
\* authentication, no credential, no prompt, no completion, no persistence.
C4_PreflightFirst ==
    event.httpMethod = "OPTIONS" =>
      /\ pc \in {"start", "done"}
      /\ trace = << >>
      /\ \A c \in Calls : world[c].kind = "unasked"
      /\ body = PyNone /\ cognito_user_id = None /\ api_key = None
      /\ system_prompt = None /\ user_prompt = None
      /\ completion = NoCompletion /\ conn = None
      /\ Done => response = [statusCode |-> 200, headers |-> FixedHeaders,
                             body |-> EmptyDict]

\* C4 witness: a preflight whose body is no JSON document has been answered.
C4_Witness ==
    /\ Done /\ event.httpMethod = "OPTIONS"
    /\ event.body = PyStr(<< LBrace >>)
    /\ response.statusCode = 200

\* C5: a call that reaches the completion step issues exactly one completion
\* request, whether it succeeds or fails, and no call issues more than one; no
\* call makes more than one connection attempt or more than one insert.
C5_OneCompletionAtMostOneSave ==
    /\ Count(trace, "completion_request") <= 1
    /\ Count(trace, "get_database_connection") <= 1
    /\ Count(trace, "connect") <= 1
    /\ Count(trace, "insert") <= 1
    /\ (Done /\ Occurs("build_prompt")) => Count(trace, "completion_request") = 1
    /\ Len(table) + Len(pending) <= 1

\* C5 witness: a failed completion was not retried.
C5_Witness ==
    /\ Done /\ CompletionFailed
    /\ Count(trace, "completion_request") = 1

\* no credential source yields a value: no override, and no secret name, or
\* the backend call errors, or the secret holds neither accepted field
NoCredential ==
    /\ ~ Truthy(environ["OPENAI_API_KEY"])
    /\ \/ ~ Truthy(environ["OPENAI_SECRET_NAME"])
       \/ world["openai_secret"].kind \in {"ClientError", "raise"}
       \/ /\ world["openai_secret"].kind = "ok"
          /\ \E d \in OpenAISecrets :
               /\ json_dumps(d) = world["openai_secret"].val
               /\ ~ Truthy(Get(d, "OPENAI_API_KEY", None))
               /\ ~ Truthy(Get(d, "openai_api_key", None))

\* C6: when no credential source yields a value, get_openai_api_key fails and
\* the authenticated request ends with 500 and the error message, and no
\* completion request is issued.
C6_NoCredentialIs500 ==
    (Occurs("get_openai_api_key") /\ NoCredential) =>
      /\ Done
      /\ response.statusCode = 500
      /\ "error" \in DOMAIN response.body
      /\ ~ Occurs("completion_request")

\* C7: every envelope the handler returns carries the four fixed headers, on
\* the preflight, unauthorized, success and failure paths alike.
C7_FixedHeaders ==
    Done =>
      /\ response.headers = FixedHeaders
      /\ response.statusCode \in {200, 401, 500}

\* C7 witness: the failure path has returned its envelope.
C7_Witness ==
    /\ Done /\ response.statusCode = 500
    /\ response.headers["Access-Control-Allow-Origin"] = "*"

TemplateTasks == { "generate", "explain", "refactor", "debug", "translate", "document" }

\* C8: for a task that is none of the six template tasks (absent, empty,
\* 'chat' or unrecognized) the prompt is built without error: the general
\* assistant system prompt, and a user prompt equal to message with code under
\* the 'Code context:' label exactly when code is non-empty.
C8_DefaultTaskPrompt ==
    LET r == RequestOf(event)
        m == Get(r, "message", "")
        c == Get(r, "code", "")
    IN  (Occurs("build_prompt") /\ Get(r, "task", "chat") \notin TemplateTasks) =>
          /\ system_prompt = "You are Codex, an AI coding assistant. Help users with code generation, explanation, refactoring, bug fixing, and documentation."
          /\ user_prompt = m \o (IF c # "" THEN "\n\nCode context:\n" \o c ELSE "")
          /\ ~ Occurs("completion_request") => pc = "complete"

\* C8 witness: an unrecognized task with code present has had its prompt built.
C8_Witness ==
    /\ pc = "complete"
    /\ task = "summarize"
    /\ user_prompt = "sort a list\n\nCode context:\nx = 1"

\* C9: the same request fields delivered as a JSON string and as a parsed
\* object take the handler through the same steps to the same envelope and
\* the same persisted row, the collaborators answering alike.
C9_SameForBothForms ==
    (Done /\ prev.set) =>
      /\ RequestOf(event) = RequestOf(prev.event)
      /\ event.body.kind # prev.event.body.kind
      /\ response = prev.response
      /\ trace = prev.trace
      /\ table = prev.table \o prev.table

\* C9 witness: the object form followed the string form and both saved a row.
C9_Witness ==
    /\ Done /\ prev.set
    /\ prev.event.body.kind = "str" /\ event.body.kind = "dict"
    /\ response.statusCode = 200
    /\ Len(table) = 2 /\ table[1] = table[2]

\* C10: a database connection that was opened is closed by the time the
\* handler returns, also where cursor creation, the insert or the commit
\* raised and the error was discarded.
C10_ConnectionClosed ==
    Done => conn # "open"

====
